---- MODULE Spec2Model ----
(***************************************************************************)
(* Model of chatglm2/main_lora.py: main(), the LoRA fine-tuning driver.    *)
(* One process per rank runs main() top to bottom.  Library calls are      *)
(* recorded in a per-rank call log; the only synchronisation written in    *)
(* the script is torch.distributed.barrier().                              *)
(*                                                                         *)
(* Python Optional values are modelled as sets: {} is None, {v} is v.      *)
(***************************************************************************)
EXTENDS Integers, Sequences, FiniteSets, TLC

\* ---------------------------------------------------------------- bounds
NumRanks == 2          \* world size of a distributed run
MaxRank == 1           \* largest value of --lora_rank tried

\* ---------------------------------------------------------------- values
None == {}
Some(v) == {v}

\* data_args.max_source_length / max_target_length values tried; no branch
\* of main() depends on them, they only enter generation_max_length
SourceLengths == {2}
TargetLengths == {1}

SplitNames == {"train", "validation", "test"}

NoError == "none"
LoadError == "LoadError"
KeyError == "KeyError"
ValueErrorTrain == "ValueError: --do_train requires a train dataset"
ValueErrorEval == "ValueError: --do_eval requires a validation dataset"
ValueErrorPredict == "ValueError: --do_predict requires a test dataset"

NoTrainer == [built |-> FALSE, train_dataset |-> None, eval_dataset |-> None,
              save_changed |-> FALSE]

\* Seq2SeqTrainingArguments fields main() may assign, as parsed
InitTrainingArgs == [generation_max_length |-> None,
                     generation_num_beams |-> None,
                     ddp_find_unused_parameters |-> None]

VARIABLES
    distributed,       \* training_args.local_rank != -1
    do_train, do_eval, do_predict,   \* training_args stage flags
    lora_rank,         \* peft_args.lora_rank (Optional int)
    lora_checkpoint,   \* peft_args.lora_checkpoint (Optional str)
    max_source_length, max_target_length,  \* data_args
    splits,            \* keys present in raw_datasets
    pc,                \* per rank: next statement of main()
    log,               \* per rank: library calls made so far, in order
    err,               \* per rank: exception that ended main(), if any
    column_names,      \* per rank: split whose column names were taken
    training_args,     \* per rank: the mutable training_args fields
    trainer,           \* per rank: arguments Seq2SeqTrainer was built with
    ret,               \* per rank: return value of main()
    arrived            \* ranks that have entered torch.distributed.barrier()

inputs == <<distributed, do_train, do_eval, do_predict, lora_rank,
            lora_checkpoint, max_source_length, max_target_length, splits>>
vars == <<distributed, do_train, do_eval, do_predict, lora_rank,
          lora_checkpoint, max_source_length, max_target_length, splits,
          pc, log, err, column_names, training_args, trainer, ret, arrived>>

\* processes of the run: one per rank, or the single non-distributed process
World == IF distributed THEN 0 .. (NumRanks - 1) ELSE {0}
AllProcs == 0 .. (NumRanks - 1)

\* training_args.local_rank of process r
local_rank(r) == IF distributed THEN r ELSE -1

Init ==
    /\ distributed \in BOOLEAN
    /\ do_train \in BOOLEAN
    /\ do_eval \in BOOLEAN
    /\ do_predict \in BOOLEAN
    /\ lora_rank \in {None} \cup {Some(n) : n \in 1 .. MaxRank}
    /\ lora_checkpoint \in {None, Some("lora_checkpoint_dir")}
    /\ max_source_length \in SourceLengths
    /\ max_target_length \in TargetLengths
    /\ splits \in SUBSET SplitNames
    /\ pc = [r \in World |-> "parse"]
    /\ log = [r \in World |-> << >>]
    /\ err = [r \in World |-> NoError]
    /\ column_names = [r \in World |-> None]
    /\ training_args = [r \in World |-> InitTrainingArgs]
    /\ trainer = [r \in World |-> NoTrainer]
    /\ ret = [r \in World |-> "unset"]
    /\ arrived = {}

\* ---------------------------------------------------------------- helpers
\* statement at r completes and control moves to `to`, having made `calls`
Goto(r, to, calls) ==
    /\ pc' = [pc EXCEPT ![r] = to]
    /\ log' = [log EXCEPT ![r] = log[r] \o calls]

\* an exception propagates out of main() (there is no try/except)
Raise(r, e, calls) ==
    /\ pc' = [pc EXCEPT ![r] = "done"]
    /\ log' = [log EXCEPT ![r] = log[r] \o calls]
    /\ err' = [err EXCEPT ![r] = e]

Occurs(s, e) == \E i \in 1 .. Len(s) : s[i] = e
Count(s, e) == Cardinality({i \in 1 .. Len(s) : s[i] = e})

\* ---------------------------------------------------------------- main()
\* lines 35-65: parse_args_into_dataclasses and logging setup
ParseArgs(r) ==
    /\ pc[r] = "parse"
    /\ Goto(r, "sleep", <<"parse">>)
    /\ UNCHANGED <<inputs, err, column_names, training_args, trainer, ret, arrived>>

\* lines 67-68: staggered start, only when local_rank != -1
StaggeredSleep(r) ==
    /\ pc[r] = "sleep"
    /\ IF local_rank(r) # -1
          THEN Goto(r, "load", <<"sleep">>)
          ELSE Goto(r, "load", << >>)
    /\ UNCHANGED <<inputs, err, column_names, training_args, trainer, ret, arrived>>

\* lines 71-81: set_seed, AutoTokenizer.from_pretrained and
\* AutoModel.from_pretrained; either load may raise
LoadTokenizerAndModel(r) ==
    /\ pc[r] = "load"
    /\ \E outcome \in {"ok", "tokenizer raises", "model raises"} :
          CASE outcome = "ok" ->
                  Goto(r, "wrap", <<"seed", "tokenizer", "model">>) /\ UNCHANGED err
            [] outcome = "tokenizer raises" ->
                  Raise(r, LoadError, <<"seed">>)
            [] outcome = "model raises" ->
                  Raise(r, LoadError, <<"seed", "tokenizer">>)
    /\ UNCHANGED <<inputs, column_names, training_args, trainer, ret, arrived>>

\* variant of WrapAdapter: get_peft_model is never called
WrapAdapter_unwrapped(r) ==
    /\ pc[r] = "wrap"
    /\ \E ok \in BOOLEAN :
          IF ok THEN Goto(r, "ckpt", << >>) /\ UNCHANGED err
                ELSE Raise(r, LoadError, << >>)
    /\ UNCHANGED <<inputs, column_names, training_args, trainer, ret, arrived>>

\* lines 83-91: LoraConfig(r=lora_rank, ...) and get_peft_model, called
\* whatever lora_rank is; the library call may raise
WrapAdapter(r) ==
    /\ pc[r] = "wrap"
    /\ \E ok \in BOOLEAN :
          IF ok THEN Goto(r, "ckpt", <<"wrap">>) /\ UNCHANGED err
                ELSE Raise(r, LoadError, << >>)
    /\ UNCHANGED <<inputs, column_names, training_args, trainer, ret, arrived>>

\* lines 93-98: load_state_dict(torch.load(...)) when a checkpoint is given
LoadLoraCheckpoint(r) ==
    /\ pc[r] = "ckpt"
    /\ IF lora_checkpoint # None
          THEN \E ok \in BOOLEAN :
                  IF ok THEN Goto(r, "barrier", <<"ckpt">>) /\ UNCHANGED err
                        ELSE Raise(r, LoadError, << >>)
          ELSE Goto(r, "barrier", << >>) /\ UNCHANGED err
    /\ UNCHANGED <<inputs, column_names, training_args, trainer, ret, arrived>>

\* variant of BarrierEnter: the barrier returns without waiting
BarrierEnter_nowait(r) ==
    /\ pc[r] = "barrier"
    /\ IF local_rank(r) # -1
          THEN Goto(r, "load_raw", <<"barrier">>) /\ arrived' = arrived \cup {r}
          ELSE Goto(r, "load_raw", << >>) /\ UNCHANGED arrived
    /\ UNCHANGED <<inputs, err, column_names, training_args, trainer, ret>>

\* lines 103-104: the rank enters torch.distributed.barrier()
BarrierEnter(r) ==
    /\ pc[r] = "barrier"
    /\ IF local_rank(r) # -1
          THEN Goto(r, "in_barrier", << >>) /\ arrived' = arrived \cup {r}
          ELSE Goto(r, "load_raw", << >>) /\ UNCHANGED arrived
    /\ UNCHANGED <<inputs, err, column_names, training_args, trainer, ret>>

\* line 104: barrier() returns once every rank of the group has entered it
BarrierRelease(r) ==
    /\ pc[r] = "in_barrier"
    /\ arrived = World
    /\ Goto(r, "load_raw", <<"barrier">>)
    /\ UNCHANGED <<inputs, err, column_names, training_args, trainer, ret, arrived>>

\* raw_datasets[name].column_names: a missing key raises KeyError
ColumnsOf(r, name) ==
    IF name \in splits
       THEN /\ column_names' = [column_names EXCEPT ![r] = Some(name)]
            /\ Goto(r, "prep_train", <<"load_raw">>)
            /\ UNCHANGED <<err, ret>>
       ELSE /\ Raise(r, KeyError, <<"load_raw">>)
            /\ UNCHANGED <<column_names, ret>>

\* line 122 `return`: main() returns None
ReturnNothingToDo(r) ==
    /\ Goto(r, "done", <<"load_raw", "nothing_to_do">>)
    /\ ret' = [ret EXCEPT ![r] = "None"]
    /\ UNCHANGED <<err, column_names>>

\* variant of SelectColumnNames: the `return` of line 122 is missing
SelectColumnNames_fallthrough(r) ==
    /\ pc[r] = "load_raw"
    /\ IF do_train THEN ColumnsOf(r, "train")
       ELSE IF do_eval THEN ColumnsOf(r, "validation")
       ELSE IF do_predict THEN ColumnsOf(r, "test")
       ELSE /\ Goto(r, "prep_train", <<"load_raw", "nothing_to_do">>)
            /\ UNCHANGED <<err, column_names, ret>>
    /\ UNCHANGED <<inputs, training_args, trainer, arrived>>

\* lines 107-122: load_raw_datasets, Preprocessor, column_names selection
SelectColumnNames(r) ==
    /\ pc[r] = "load_raw"
    /\ IF do_train THEN ColumnsOf(r, "train")
       ELSE IF do_eval THEN ColumnsOf(r, "validation")
       ELSE IF do_predict THEN ColumnsOf(r, "test")
       ELSE ReturnNothingToDo(r)
    /\ UNCHANGED <<inputs, training_args, trainer, arrived>>

\* one `if training_args.do_X:` block of lines 124-170
PreprocessStage(r, flag, name, e, call, to) ==
    IF flag
       THEN IF name \notin splits
               THEN Raise(r, e, << >>)
               ELSE Goto(r, to, <<call>>) /\ UNCHANGED err
       ELSE Goto(r, to, << >>) /\ UNCHANGED err

\* lines 124-139
PreprocessTrain(r) ==
    /\ pc[r] = "prep_train"
    /\ PreprocessStage(r, do_train, "train", ValueErrorTrain, "prep_train", "prep_eval")
    /\ UNCHANGED <<inputs, column_names, training_args, trainer, ret, arrived>>

\* variant of PreprocessEval: the block is guarded by do_train
PreprocessEval_onTrainFlag(r) ==
    /\ pc[r] = "prep_eval"
    /\ PreprocessStage(r, do_train, "validation", ValueErrorEval, "prep_eval", "prep_predict")
    /\ UNCHANGED <<inputs, column_names, training_args, trainer, ret, arrived>>

\* lines 141-155
PreprocessEval(r) ==
    /\ pc[r] = "prep_eval"
    /\ PreprocessStage(r, do_eval, "validation", ValueErrorEval, "prep_eval", "prep_predict")
    /\ UNCHANGED <<inputs, column_names, training_args, trainer, ret, arrived>>

\* lines 157-170
PreprocessPredict(r) ==
    /\ pc[r] = "prep_predict"
    /\ PreprocessStage(r, do_predict, "test", ValueErrorPredict, "prep_predict", "trainer")
    /\ UNCHANGED <<inputs, column_names, training_args, trainer, ret, arrived>>

\* lines 186-191: decoding overrides written into training_args
OverrideTrainingArgs(r) ==
    [generation_max_length |-> Some(max_source_length + max_target_length + 1),
     generation_num_beams |-> Some(1),
     ddp_find_unused_parameters |->
         IF local_rank(r) # -1 THEN Some(FALSE)
         ELSE training_args[r].ddp_find_unused_parameters]

\* variant of BuildTrainer: save_changed=True whatever lora_rank is
BuildTrainer_alwaysChanged(r) ==
    /\ pc[r] = "trainer"
    /\ Goto(r, "train", <<"collator", "evaluator", "trainer">>)
    /\ training_args' = [training_args EXCEPT ![r] = OverrideTrainingArgs(r)]
    /\ trainer' = [trainer EXCEPT ![r] =
          [built |-> TRUE,
           train_dataset |-> IF do_train THEN Some("train") ELSE None,
           eval_dataset |-> IF do_eval THEN Some("validation") ELSE None,
           save_changed |-> TRUE]]
    /\ UNCHANGED <<inputs, err, column_names, ret, arrived>>

\* lines 172-203: data collator, evaluator, decoding overrides and the
\* Seq2SeqTrainer constructor
BuildTrainer(r) ==
    /\ pc[r] = "trainer"
    /\ Goto(r, "train", <<"collator", "evaluator", "trainer">>)
    /\ training_args' = [training_args EXCEPT ![r] = OverrideTrainingArgs(r)]
    /\ trainer' = [trainer EXCEPT ![r] =
          [built |-> TRUE,
           train_dataset |-> IF do_train THEN Some("train") ELSE None,
           eval_dataset |-> IF do_eval THEN Some("validation") ELSE None,
           save_changed |-> (lora_rank # None)]]
    /\ UNCHANGED <<inputs, err, column_names, ret, arrived>>

\* lines 206-224
Train(r) ==
    /\ pc[r] = "train"
    /\ IF do_train
          THEN Goto(r, "predict", <<"train", "save_state">>)
          ELSE Goto(r, "predict", << >>)
    /\ UNCHANGED <<inputs, err, column_names, training_args, trainer, ret, arrived>>

\* lines 227-241: prediction, then `return results` (results stays {});
\* save_predictions runs on the world-zero process only (rank 0, or the
\* single process of a non-distributed run)
PredictAndReturn(r) ==
    /\ pc[r] = "predict"
    /\ IF do_predict
          THEN Goto(r, "done",
                    IF local_rank(r) \in {-1, 0}
                       THEN <<"predict", "save_predictions">>
                       ELSE <<"predict">>)
          ELSE Goto(r, "done", << >>)
    /\ ret' = [ret EXCEPT ![r] = "results"]
    /\ UNCHANGED <<inputs, err, column_names, training_args, trainer, arrived>>

RankNext(r) ==
    \/ ParseArgs(r)
    \/ StaggeredSleep(r)
    \/ LoadTokenizerAndModel(r)
    \/ WrapAdapter(r)
    \/ LoadLoraCheckpoint(r)
    \/ BarrierEnter(r)
    \/ BarrierRelease(r)
    \/ SelectColumnNames(r)
    \/ PreprocessTrain(r)
    \/ PreprocessEval(r)
    \/ PreprocessPredict(r)
    \/ BuildTrainer(r)
    \/ Train(r)
    \/ PredictAndReturn(r)

Next ==
    \/ \E r \in World : ParseArgs(r)
    \/ \E r \in World : StaggeredSleep(r)
    \/ \E r \in World : LoadTokenizerAndModel(r)
    \/ \E r \in World : WrapAdapter(r)
    \/ \E r \in World : LoadLoraCheckpoint(r)
    \/ \E r \in World : BarrierEnter(r)
    \/ \E r \in World : BarrierRelease(r)
    \/ \E r \in World : SelectColumnNames(r)
    \/ \E r \in World : PreprocessTrain(r)
    \/ \E r \in World : PreprocessEval(r)
    \/ \E r \in World : PreprocessPredict(r)
    \/ \E r \in World : BuildTrainer(r)
    \/ \E r \in World : Train(r)
    \/ \E r \in World : PredictAndReturn(r)

Spec == Init /\ [][Next]_vars

\* every rank is its own OS process and keeps running while it can
FairSpec == Spec /\ \A r \in AllProcs : WF_vars(r \in World /\ RankNext(r))

\* ---------------------------------------------------------------- claims
Finished(r) == pc[r] = "done"
FinishedOk(r) == pc[r] = "done" /\ err[r] = NoError

\* position of each call in the order main() is written
StepOrder(e) ==
    CASE e = "parse" -> 1
      [] e = "sleep" -> 2
      [] e = "seed" -> 3
      [] e = "tokenizer" -> 4
      [] e = "model" -> 5
      [] e = "wrap" -> 6
      [] e = "ckpt" -> 7
      [] e = "barrier" -> 8
      [] e = "load_raw" -> 9
      [] e = "nothing_to_do" -> 10
      [] e = "prep_train" -> 11
      [] e = "prep_eval" -> 12
      [] e = "prep_predict" -> 13
      [] e = "collator" -> 14
      [] e = "evaluator" -> 15
      [] e = "trainer" -> 16
      [] e = "train" -> 17
      [] e = "save_state" -> 18
      [] e = "predict" -> 19
      [] e = "save_predictions" -> 20

TrainerCalls == {"train", "save_state", "predict", "save_predictions"}
MadeTrainerCall(r) == \E e \in TrainerCalls : Occurs(log[r], e)

\* the preprocessing the flags ask for has been done
PreprocessingDone(r) ==
    /\ Occurs(log[r], "load_raw")
    /\ do_train => Occurs(log[r], "prep_train")
    /\ do_eval => Occurs(log[r], "prep_eval")
    /\ do_predict => Occurs(log[r], "prep_predict")

\* C1: the calls of main() happen in the written order, each at most once
\* (parse, seed, tokenizer, model, adapter wrap, optional checkpoint load,
\* raw datasets, preprocessing, trainer construction, train, predict), and
\* a trainer call is never made before the adapter wrap, the checkpoint
\* load when one is given, dataset preprocessing and trainer construction.
C1_FixedOrder ==
    \A r \in World :
        /\ \A i, j \in 1 .. Len(log[r]) :
              i < j => StepOrder(log[r][i]) < StepOrder(log[r][j])
        /\ MadeTrainerCall(r) =>
              /\ Occurs(log[r], "parse") /\ Occurs(log[r], "seed")
              /\ Occurs(log[r], "tokenizer") /\ Occurs(log[r], "model")
              /\ Occurs(log[r], "wrap")
              /\ (lora_checkpoint # None => Occurs(log[r], "ckpt"))
              /\ PreprocessingDone(r)
              /\ Occurs(log[r], "trainer") /\ trainer[r].built

C1_Witness ==
    \E r \in World :
        /\ Occurs(log[r], "train") /\ Occurs(log[r], "predict")
        /\ Occurs(log[r], "ckpt") /\ Occurs(log[r], "prep_eval")

\* C2: in a run that completes without error, trainer.train is called once
\* if do_train and never otherwise, trainer.predict once if do_predict and
\* never otherwise, and each split is preprocessed (once) iff its flag is set.
C2_StagesFollowFlags ==
    \A r \in World :
        FinishedOk(r) =>
            /\ Count(log[r], "train") = (IF do_train THEN 1 ELSE 0)
            /\ Count(log[r], "predict") = (IF do_predict THEN 1 ELSE 0)
            /\ Count(log[r], "prep_train") = (IF do_train THEN 1 ELSE 0)
            /\ Count(log[r], "prep_eval") = (IF do_eval THEN 1 ELSE 0)
            /\ Count(log[r], "prep_predict") = (IF do_predict THEN 1 ELSE 0)

C2_Witness ==
    \E r \in World :
        /\ FinishedOk(r) /\ do_train /\ ~do_eval /\ do_predict
        /\ Occurs(log[r], "train") /\ Occurs(log[r], "predict")

\* C3: in a run with do_eval that completes without error, the trainer is
\* given the preprocessed validation dataset as eval_dataset and a trainer
\* call that evaluates it is made (trainer.train is counted as one, since
\* the trainer may evaluate eval_dataset while training).
C3_EvaluationDelegated ==
    \A r \in World :
        (FinishedOk(r) /\ do_eval) =>
            /\ trainer[r].built
            /\ trainer[r].eval_dataset = Some("validation")
            /\ Occurs(log[r], "prep_eval")
            /\ \/ Occurs(log[r], "evaluate")
               \/ Occurs(log[r], "train")

\* C4 as stated: save_changed is (lora_rank is not None) and, the model
\* being wrapped in every run, every trainer is built with save_changed true.
C4_WrappedImpliesSaveChanged ==
    \A r \in World :
        trainer[r].built =>
            /\ trainer[r].save_changed = (lora_rank # None)
            /\ Occurs(log[r], "wrap") => trainer[r].save_changed = TRUE

\* C4 amended: the trainer is built with save_changed true exactly when
\* lora_rank is not None; the model is wrapped before every trainer
\* construction whatever lora_rank is.
C4_SaveChangedIffRank ==
    \A r \in World :
        trainer[r].built =>
            /\ trainer[r].save_changed = (lora_rank # None)
            /\ Occurs(log[r], "wrap")

C4_Witness ==
    \E r \in World :
        trainer[r].built /\ lora_rank # None /\ trainer[r].save_changed

MissingStageErrors ==
    (IF do_train /\ "train" \notin splits THEN {ValueErrorTrain} ELSE {})
    \cup (IF do_eval /\ "validation" \notin splits THEN {ValueErrorEval} ELSE {})
    \cup (IF do_predict /\ "test" \notin splits THEN {ValueErrorPredict} ELSE {})

\* C5: once the raw datasets are loaded, a run whose flags ask for a split
\* that is absent ends with the ValueError of such a stage, before the
\* trainer is constructed, and with no other error (such as KeyError).
C5_MissingSplitValueError ==
    \A r \in World :
        (Finished(r) /\ Occurs(log[r], "load_raw") /\ MissingStageErrors # {}) =>
            /\ err[r] \in MissingStageErrors
            /\ ~trainer[r].built

\* C6: with no stage flag set, main() logs "nothing to do" and returns None
\* at once: nothing is preprocessed, no collator, evaluator or trainer is
\* built, training_args is unchanged, and no train/predict/save call is made.
C6_NothingToDo ==
    \A r \in World :
        (~do_train /\ ~do_eval /\ ~do_predict) =>
            /\ \A e \in {"prep_train", "prep_eval", "prep_predict", "collator",
                         "evaluator", "trainer"} \cup TrainerCalls :
                  ~Occurs(log[r], e)
            /\ training_args[r] = InitTrainingArgs
            /\ ~trainer[r].built
            /\ ret[r] # "results"
            /\ Occurs(log[r], "nothing_to_do") => (pc[r] = "done" /\ ret[r] = "None")
            /\ Occurs(log[r], "load_raw") =>
                  (Occurs(log[r], "nothing_to_do") /\ err[r] = NoError)

C6_Witness ==
    \E r \in World :
        /\ ~do_train /\ ~do_eval /\ ~do_predict
        /\ Occurs(log[r], "nothing_to_do") /\ FinishedOk(r)

\* rank s has finished tokenizer, model, adapter and optional checkpoint
LoadsFinished(s) ==
    /\ Occurs(log[s], "tokenizer") /\ Occurs(log[s], "model")
    /\ Occurs(log[s], "wrap")
    /\ lora_checkpoint # None => Occurs(log[s], "ckpt")

PassedBarrier(r) == Occurs(log[r], "barrier")

C7_Safety ==
    /\ distributed =>
          \A r \in World :
              /\ Len(log[r]) >= 2 => log[r][2] = "sleep"
              /\ (pc[r] = "load_raw" \/ Occurs(log[r], "load_raw")) =>
                    /\ PassedBarrier(r)
                    /\ \A s \in World : LoadsFinished(s)
              /\ (Finished(r) /\ err[r] # LoadError) => PassedBarrier(r)
    /\ ~distributed =>
          \A r \in World :
              ~Occurs(log[r], "sleep") /\ ~Occurs(log[r], "barrier")

C7_Live ==
    \/ ~distributed
    \/ \E r \in World : err[r] = LoadError
    \/ \A r \in World : PassedBarrier(r)

\* C7: in a distributed run every rank sleeps and then meets the barrier
\* before any flag-dependent branch, return or stage error; no rank begins
\* load_raw_datasets before every rank has finished its loads; unless some
\* rank's load raises, every rank eventually passes the barrier.  In a
\* non-distributed run neither the sleep nor the barrier is executed.
C7_Barrier == [] C7_Safety /\ <> C7_Live

C7_Witness ==
    /\ distributed
    /\ ~do_train /\ ~do_eval /\ ~do_predict
    /\ \A r \in World : PassedBarrier(r)
    /\ \E r \in World : Occurs(log[r], "nothing_to_do")
    /\ \E r \in World : pc[r] = "load_raw"

====
